---------------------------- MODULE Spec2Model ----------------------------
(***************************************************************************)
(* A model of tools/journal.py, the static journal publisher.              *)
(*                                                                         *)
(* Text is a sequence of tokens.  A token is either one character class    *)
(* or one fixed piece of markup that the program searches for or writes:   *)
(*   "a"   an ASCII letter           "bs"  a backslash                     *)
(*   "sp"  a space                   "nl"  a newline                       *)
(*   "q"   a double quote            "em"  an em-dash     "hy"  a hyphen   *)
(*   "LS" "LE"   <!-- LATEST_START -->   <!-- LATEST_END -->               *)
(*   "AS" "AE"   <!-- ARCHIVE START -->  <!-- ARCHIVE END -->              *)
(*   "MO" "MM" "MC"   the three fixed parts of the metadata comment:       *)
(*                    <!-- LATEST_META file="   |  " title="   |  " -->    *)
(*   "H3O" "H3C"   <h3>  </h3>                                             *)
(*   "ARTO" "ARTC" <article class="entry-card">  </article>                *)
(*   "PO" "PC"     <p class="entry-meta">  </p>                            *)
(*   "LI1" "LI2" "LI3"  the fixed parts of an archive line                 *)
(*   "NOENT"       <!-- (no entries yet) --> with its indentation          *)
(*   "ent" "html"  entries/  and  .html  of a relative path                *)
(*   "entry"       the default slug                                        *)
(*   "d1" "d2" "d3"  three dates written YYYY-MM-DD                        *)
(***************************************************************************)
EXTENDS Integers, Sequences, FiniteSets, TLC

\* ------------------------------------------------------------------ bounds
\* Longest document given to replace_between_markers on its own.
MaxDoc == 4
\* Longest replacement text given to replace_between_markers on its own.
MaxRepl == 2
\* The number of blocks (a marker, a metadata comment, a piece of text) of the
\* home pages that publish is run on twice.
MaxBlocks == 5
\* Longest home page that publish is run on: a publish that is not idempotent
\* can make the page longer every time.
MaxHome == 100

\* ------------------------------------------------------------ text helpers
NoFile == <<"<absent>">>

Whitespace == {"sp", "nl"}

\* Tokens that hold a double quote: [^"] of LATEST_META_RE matches none of them.
QuoteToks == {"q", "MO", "MM", "MC", "LI1", "LI2", "PO", "ARTO"}

\* ASCII letters: a backslash before one is a bad escape of a replacement
\* template ("a" stands for a letter that names no escape).
AsciiLetters == {"a", "entry"}

Last(s) == s[Len(s)]

RECURSIVE rstrip(_)
rstrip(s) ==
    IF s = <<>> THEN <<>>
    ELSE IF Last(s) \in Whitespace THEN rstrip(SubSeq(s, 1, Len(s) - 1))
    ELSE s

RECURSIVE lstrip(_)
lstrip(s) ==
    IF s = <<>> THEN <<>>
    ELSE IF Head(s) \in Whitespace THEN lstrip(Tail(s))
    ELSE s

strip(s) == lstrip(rstrip(s))

\* The concatenation of pieces[lo], ..., pieces[hi].
RECURSIVE ConcatRange(_, _, _)
ConcatRange(pieces, lo, hi) ==
    IF lo > hi THEN <<>>
    ELSE IF lo = hi THEN pieces[lo]
    ELSE LET mid == (lo + hi) \div 2
         IN  ConcatRange(pieces, lo, mid) \o ConcatRange(pieces, mid + 1, hi)

Concat(pieces) == ConcatRange(pieces, 1, Len(pieces))

Least(S) == IF S = {} THEN 0 ELSE CHOOSE i \in S : \A j \in S : i <= j

\* re.sub(r"\s+", " ", s): every maximal run of whitespace becomes one space.
collapse_ws(s) ==
    Concat([i \in 1..Len(s) |->
              IF s[i] \notin Whitespace THEN <<s[i]>>
              ELSE IF i > 1 /\ s[i - 1] \in Whitespace THEN <<>>
              ELSE <<"sp">>])

\* The least index >= from at which tok occurs in s, or 0.
IndexFrom(s, tok, from) == Least({i \in from..Len(s) : s[i] = tok})

Contains(s, tok) == IndexFrom(s, tok, 1) # 0

\* re.search of  start .*? end  with DOTALL: the leftmost start that has an
\* end after it, and the nearest such end.  <<0, 0>> when there is no match.
RegionSearch(s, start, end) ==
    LET i == IndexFrom(s, start, 1)
        j == IF i = 0 THEN 0 ELSE IndexFrom(s, end, i + 1)
    IN  IF j = 0 THEN <<0, 0>> ELSE <<i, j>>

\* str.replace("\n", "\n  ")
IndentNewlines(s) ==
    Concat([i \in 1..Len(s) |->
              IF s[i] = "nl" THEN <<"nl", "sp", "sp">> ELSE <<s[i]>>])

\* ------------------------------------------------------- Document Splicer
\* A replacement string handed to Pattern.subn is a template, read from the
\* left: a backslash takes the character after it as its escape.  A backslash
\* followed by a backslash is one backslash, a backslash followed by an ASCII
\* letter that names no escape, or by nothing, is an error ("bad escape"),
\* and a backslash followed by anything else stays as it is.
\* The number of backslashes that stand right before t[i].
RECURSIVE BackslashesBefore(_, _)
BackslashesBefore(t, i) ==
    IF i = 1 \/ t[i - 1] # "bs" THEN 0 ELSE 1 + BackslashesBefore(t, i - 1)

\* t[i] is the character a backslash takes as its escape.
Escaped(t, i) == BackslashesBefore(t, i) % 2 = 1

\* t[i] is a backslash that starts an escape.
StartsEscape(t, i) == t[i] = "bs" /\ ~Escaped(t, i)

ExpandTemplate(t) ==
    LET bad == \E i \in 1..Len(t) :
                   /\ StartsEscape(t, i)
                   /\ (i = Len(t) \/ t[i + 1] \in AsciiLetters)
    IN  IF bad THEN [ok |-> FALSE, text |-> <<>>]
        ELSE [ok |-> TRUE,
              text |-> Concat([i \in 1..Len(t) |->
                          IF Escaped(t, i) /\ t[i] = "bs" THEN <<>>
                          ELSE <<t[i]>>])]

\* A mutant of replace_between_markers: the old content of the region is kept
\* and the replacement is put after it.
replace_between_markers_keep(html, start, end, replacement) ==
    LET block == <<start, "nl">> \o rstrip(replacement) \o <<"nl", "sp", "sp", end>>
        tpl   == ExpandTemplate(block)
        m     == RegionSearch(html, start, end)
    IN  IF ~tpl.ok THEN [err |-> "BadEscape", html |-> html]
        ELSE IF m[1] = 0 THEN [err |-> "MarkerNotFound", html |-> html]
        ELSE [err |-> "",
              html |-> SubSeq(html, 1, m[2] - 1) \o Tail(tpl.text)
                       \o SubSeq(html, m[2] + 1, Len(html))]

\* replace_between_markers: pattern.subn(block, html, count=1) replaces the
\* leftmost match only, so n is 0 or 1.
replace_between_markers(html, start, end, replacement) ==
    LET block == <<start, "nl">> \o rstrip(replacement) \o <<"nl", "sp", "sp", end>>
        tpl   == ExpandTemplate(block)
        m     == RegionSearch(html, start, end)
        n     == IF m[1] = 0 THEN 0 ELSE 1
    IN  IF ~tpl.ok THEN [err |-> "BadEscape", html |-> html]
        ELSE IF n # 1 THEN [err |-> "MarkerNotFound", html |-> html]
        ELSE [err |-> "",
              html |-> SubSeq(html, 1, m[1] - 1) \o tpl.text
                       \o SubSeq(html, m[2] + 1, Len(html))]


\* ------------------------------------------------------------ Entry Parser
DateToks == {"d1", "d2", "d3"}

\* int() of the three digit groups of a date: (yyyy, mm, dd).
DateKey(d) ==
    CASE d = "d1" -> <<2025, 11, 30>>
      [] d = "d2" -> <<2025, 12, 27>>
      [] d = "d3" -> <<2026, 1, 5>>

\* f"{yyyy:04d}-{mm:02d}-{dd:02d}"
FormatDate(k) == CHOOSE d \in DateToks : DateKey(d) = k

\* str(entry_path.relative_to(ROOT)): entries/<name>.html
RelPath(name) == <<"ent">> \o name \o <<"html">>

\* The text strictly between the first open ... close pair, or "none".
InnerOf(content, open, close) ==
    LET m == RegionSearch(content, open, close)
    IN  IF m[1] = 0 THEN [found |-> FALSE, text |-> <<>>]
        ELSE [found |-> TRUE, text |-> SubSeq(content, m[1] + 1, m[2] - 1)]

\* re.match(r"(\d{4})-(\d{2})-(\d{2})\s+[—-]\s+(.+)", title_line)
MatchesDateHeading(title_line) ==
    /\ Len(title_line) >= 5
    /\ title_line[1] \in DateToks
    /\ title_line[2] \in Whitespace
    /\ title_line[3] \in {"em", "hy"}
    /\ title_line[4] \in Whitespace
    /\ title_line[5] # "nl"

NoInfo ==
    [ok |-> FALSE, rel_path |-> <<>>, date_str |-> "", title_line |-> <<>>,
     meta |-> <<>>, sort_key |-> <<0, 0, 0>>]

extract_entry_info(name, content) ==
    LET m_title    == InnerOf(content, "H3O", "H3C")
        title_line == strip(collapse_ws(m_title.text))
        m_meta     == InnerOf(content, "PO", "PC")
    IN  IF content = NoFile \/ ~m_title.found THEN NoInfo
        ELSE IF ~MatchesDateHeading(title_line) THEN NoInfo
        ELSE [ok         |-> TRUE,
              rel_path   |-> RelPath(name),
              date_str   |-> FormatDate(DateKey(title_line[1])),
              title_line |-> title_line,
              meta       |-> IF m_meta.found THEN strip(collapse_ws(m_meta.text))
                             ELSE <<>>,
              sort_key   |-> DateKey(title_line[1])]

\* extract_latest_article_from_entry: the first <article ...> ... </article>.
extract_latest_article_from_entry(content) ==
    LET m == RegionSearch(content, "ARTO", "ARTC")
    IN  IF m[1] = 0 THEN [ok |-> FALSE, text |-> <<>>]
        ELSE [ok |-> TRUE, text |-> strip(SubSeq(content, m[1], m[2]))]

\* ---------------------------------------------------------- Archive Builder
\* The order of file names: code points of "-" < "." < digits < letters.
TokRank(t) ==
    CASE t = "hy"    -> 1
      [] t = "html"  -> 2
      [] t = "d1"    -> 3
      [] t = "d2"    -> 4
      [] t = "d3"    -> 5
      [] t = "a"     -> 6
      [] t = "entry" -> 7

RECURSIVE SeqLess(_, _)
SeqLess(x, y) ==
    IF y = <<>> THEN FALSE
    ELSE IF x = <<>> THEN TRUE
    ELSE IF TokRank(Head(x)) # TokRank(Head(y))
         THEN TokRank(Head(x)) < TokRank(Head(y))
    ELSE SeqLess(Tail(x), Tail(y))

\* Path.__lt__ on two files of the entries directory.
PathLess(n1, n2) == SeqLess(n1 \o <<"html">>, n2 \o <<"html">>)

\* sorted(ENTRIES_DIR.glob("*.html"))
RECURSIVE SortedNames(_)
SortedNames(S) ==
    IF S = {} THEN <<>>
    ELSE LET least == CHOOSE n \in S : \A o \in S \ {n} : PathLess(n, o)
         IN  <<least>> \o SortedNames(S \ {least})

\* Tuple comparison of two sort keys.
KeyLess(a, b) ==
    \/ a[1] < b[1]
    \/ a[1] = b[1] /\ a[2] < b[2]
    \/ a[1] = b[1] /\ a[2] = b[2] /\ a[3] < b[3]

\* A mutant of SortDescending: ascending sort, then reversed, which also
\* reverses the entries of one date.
RECURSIVE SortDescendingReversed(_)
SortDescendingReversed(infos) ==
    IF infos = <<>> THEN <<>>
    ELSE LET rest == SortDescendingReversed(Tail(infos))
             e    == Head(infos)
             k    == Cardinality({i \in 1..Len(rest) :
                                    ~KeyLess(rest[i].sort_key, e.sort_key)})
         IN  SubSeq(rest, 1, k) \o <<e>> \o SubSeq(rest, k + 1, Len(rest))

\* infos.sort(key=lambda e: e.sort_key, reverse=True): list.sort is stable,
\* and with reverse=True elements of equal key keep their original order.
RECURSIVE SortDescending(_)
SortDescending(infos) ==
    IF infos = <<>> THEN <<>>
    ELSE LET rest == SortDescending(SubSeq(infos, 1, Len(infos) - 1))
             e    == Last(infos)
             k    == Cardinality({i \in 1..Len(rest) :
                                    ~KeyLess(rest[i].sort_key, e.sort_key)})
         IN  SubSeq(rest, 1, k) \o <<e>> \o SubSeq(rest, k + 1, Len(rest))

Existing(fs) == {n \in DOMAIN fs : fs[n] # NoFile}

\* A mutant of ParseAll: the exception of a failed parse is not caught.
RECURSIVE ParseAllNoCatch(_, _)
ParseAllNoCatch(fs, names) ==
    IF names = <<>> THEN [raised |-> FALSE, infos |-> <<>>]
    ELSE LET info == extract_entry_info(Head(names), fs[Head(names)])
             rest == ParseAllNoCatch(fs, Tail(names))
         IN  IF info.ok
             THEN [raised |-> rest.raised, infos |-> <<info>> \o rest.infos]
             ELSE [raised |-> TRUE, infos |-> <<>>]

\* The loop of list_entries over the sorted paths: a path whose parse raises
\* is skipped (except Exception: continue).
RECURSIVE ParseAll(_, _)
ParseAll(fs, names) ==
    IF names = <<>> THEN [raised |-> FALSE, infos |-> <<>>]
    ELSE LET info == extract_entry_info(Head(names), fs[Head(names)])
             rest == ParseAll(fs, Tail(names))
         IN  IF info.ok
             THEN [raised |-> rest.raised, infos |-> <<info>> \o rest.infos]
             ELSE rest

list_entries(fs) ==
    LET parsed == ParseAll(fs, SortedNames(Existing(fs)))
    IN  [raised |-> parsed.raised, infos |-> SortDescending(parsed.infos)]

\* title_line.split("—", 1)[-1]
AfterFirstEmDash(title_line) ==
    LET i == IndexFrom(title_line, "em", 1)
    IN  IF i = 0 THEN title_line ELSE SubSeq(title_line, i + 1, Len(title_line))

ArchiveLine(e) ==
    <<"LI1">> \o e.rel_path \o <<"LI2", e.date_str, "sp", "hy", "sp">>
    \o strip(AfterFirstEmDash(e.title_line)) \o <<"LI3">>

\* "\n".join(lines)
JoinLines(lines) ==
    Concat([i \in 1..Len(lines) |->
              IF i = 1 THEN lines[i] ELSE <<"nl">> \o lines[i]])

build_archive_ul(entries) ==
    IF entries = <<>> THEN <<"NOENT">>
    ELSE JoinLines([i \in 1..Len(entries) |-> ArchiveLine(entries[i])])

\* ------------------------------------------------------ Publish Orchestrator
ensure_markers_exist(html) ==
    /\ Contains(html, "AS") /\ Contains(html, "AE")
    /\ Contains(html, "LS") /\ Contains(html, "LE")
    /\ Contains(html, "MO")

\* The least index >= from of a token that holds a double quote, or 0.
NextQuote(s, from) == Least({i \in from..Len(s) : s[i] \in QuoteToks})

\* LATEST_META_RE matched at index i: the end of the match, or 0.
MetaMatchAt(s, i) ==
    LET j == NextQuote(s, i + 1)
        k == IF j = 0 THEN 0 ELSE NextQuote(s, j + 1)
    IN  IF /\ s[i] = "MO"
           /\ j > i + 1 /\ s[j] = "MM"
           /\ k > j + 1 /\ s[k] = "MC"
        THEN k ELSE 0

\* LATEST_META_RE.search: <<start, end>> of the leftmost match, or <<0, 0>>.
MetaSearch(s) ==
    LET i == Least({k \in 1..Len(s) : MetaMatchAt(s, k) # 0})
    IN  IF i = 0 THEN <<0, 0>> ELSE <<i, MetaMatchAt(s, i)>>

update_latest_meta(html, latest) ==
    LET m == MetaSearch(html)
    IN  IF m[1] = 0 THEN [err |-> "MetaNotMatched", html |-> html]
        ELSE [err |-> "",
              html |-> SubSeq(html, 1, m[1] - 1)
                       \o <<"MO">> \o latest.rel_path \o <<"MM">>
                       \o latest.title_line \o <<"MC">>
                       \o SubSeq(html, m[2] + 1, Len(html))]

\* The stages of cmd_publish after the two existence checks and the
\* validation of the home page; the result is the error raised ("" for none)
\* and the content of the home page when the call returns.
PublishBody(idx, fs, target) ==
    LET article == extract_latest_article_from_entry(fs[target])
        info    == extract_entry_info(target, fs[target])
        entries == list_entries(fs)
        h1      == update_latest_meta(idx, info)
        h2      == replace_between_markers(h1.html, "LS", "LE",
                       <<"sp", "sp">> \o IndentNewlines(article.text))
        h3      == replace_between_markers(h2.html, "AS", "AE",
                       build_archive_ul(entries.infos))
    IN  IF ~article.ok THEN [err |-> "MalformedEntry", index |-> idx]
        ELSE IF ~info.ok THEN [err |-> "MalformedEntry", index |-> idx]
        ELSE IF entries.raised THEN [err |-> "MalformedEntry", index |-> idx]
        ELSE IF h1.err # "" THEN [err |-> h1.err, index |-> idx]
        ELSE IF h2.err # "" THEN [err |-> h2.err, index |-> idx]
        ELSE IF h3.err # "" THEN [err |-> h3.err, index |-> idx]
        ELSE [err |-> "", index |-> h3.html]

\* A mutant of cmd_publish: the home page is validated before the entry path
\* is looked up.
cmd_publish_markers_first(idx, fs, target) ==
    IF idx = NoFile THEN [err |-> "MissingIndex", index |-> idx]
    ELSE IF ~ensure_markers_exist(idx) THEN [err |-> "MissingMarkers", index |-> idx]
    ELSE IF fs[target] = NoFile THEN [err |-> "EntryNotFound", index |-> idx]
    ELSE PublishBody(idx, fs, target)

\* A mutant of cmd_publish: the home page is written after each edit, not
\* once at the end.
cmd_publish_write_each(idx, fs, target) ==
    LET r  == PublishBody(idx, fs, target)
        h1 == update_latest_meta(idx, extract_entry_info(target, fs[target]))
    IN  IF idx = NoFile THEN [err |-> "MissingIndex", index |-> idx]
        ELSE IF fs[target] = NoFile THEN [err |-> "EntryNotFound", index |-> idx]
        ELSE IF ~ensure_markers_exist(idx) THEN [err |-> "MissingMarkers", index |-> idx]
        ELSE IF r.err \in {"BadEscape", "MarkerNotFound"}
             THEN [err |-> r.err, index |-> h1.html]
        ELSE r

cmd_publish(idx, fs, target) ==
    IF idx = NoFile THEN [err |-> "MissingIndex", index |-> idx]
    ELSE IF fs[target] = NoFile THEN [err |-> "EntryNotFound", index |-> idx]
    ELSE IF ~ensure_markers_exist(idx) THEN [err |-> "MissingMarkers", index |-> idx]
    ELSE PublishBody(idx, fs, target)

\* ---------------------------------------------------------- Entry Scaffolder
RECURSIVE KeepSlugChars(_)
KeepSlugChars(s) ==
    IF s = <<>> THEN <<>>
    ELSE IF Head(s) \in {"a", "hy", "sp", "nl"}
         THEN <<Head(s)>> \o KeepSlugChars(Tail(s))
         ELSE KeepSlugChars(Tail(s))

RECURSIVE WhitespaceToHyphen(_)
WhitespaceToHyphen(s) ==
    IF s = <<>> THEN <<>>
    ELSE IF Head(s) \in Whitespace
         THEN <<"hy">> \o WhitespaceToHyphen(lstrip(s))
         ELSE <<Head(s)>> \o WhitespaceToHyphen(Tail(s))

RECURSIVE CollapseHyphens(_)
CollapseHyphens(s) ==
    IF Len(s) < 2 THEN s
    ELSE IF s[1] = "hy" /\ s[2] = "hy" THEN CollapseHyphens(Tail(s))
    ELSE <<Head(s)>> \o CollapseHyphens(Tail(s))

slugify_title(title) ==
    LET t == CollapseHyphens(WhitespaceToHyphen(KeepSlugChars(strip(title))))
    IN  IF t = <<>> THEN <<"entry">> ELSE t

\* The template of cmd_new; its fixed lines are shortened to one letter each.
Template(today, title) ==
    <<"a", "q", "nl", today, "sp", "em", "sp">> \o title
    \o <<"nl", "ARTO", "nl", "sp", "H3O", today, "sp", "em", "sp">> \o title
    \o <<"H3C", "nl", "sp", "PO", "a", "PC", "nl", "a", "nl", "ARTC", "nl", "a", "nl">>

NewName(today, title) == <<today, "hy">> \o slugify_title(title)

\* A mutant of cmd_new: no check that the path exists.
cmd_new_overwrite(fs, today, title) ==
    [err |-> "", files |-> [fs EXCEPT ![NewName(today, title)] = Template(today, title)]]

\* The result is the error raised ("" for none) and the entries directory
\* when the call returns.
cmd_new(fs, today, title) ==
    LET path == NewName(today, title)
    IN  IF fs[path] # NoFile
        THEN [err |-> "EntryAlreadyExists", files |-> fs]
        ELSE [err |-> "", files |-> [fs EXCEPT ![path] = Template(today, title)]]

\* -------------------------------------------------------------- write_text
\* Path.write_text opens the file with mode "w", which truncates it, and
\* writes the whole text at offset 0 when the file is closed.
\* A mutant of OpenForWrite: the file is opened without truncation.
OpenNoTruncate(content) == content

OpenForWrite(content) == <<>>

WriteAtStart(content, text) ==
    text \o SubSeq(content, Len(text) + 1, Len(content))

\* ------------------------------------------------------------------ inputs
Doc(heading, body) ==
    <<"ARTO", "nl", "H3O">> \o heading \o <<"H3C", "nl">> \o body
    \o <<"nl", "ARTC", "nl">>

E_em     == Doc(<<"d2", "sp", "em", "sp", "a">>, <<"a">>)
E_hy     == Doc(<<"d2", "sp", "hy", "sp", "a">>, <<"PO", "a", "nl", "a", "PC">>)
E_ws     == Doc(<<"nl", "sp", "d3", "sp", "sp", "em", "nl", "a", "sp">>,
                <<"a", "nl", "a">>)
E_q      == Doc(<<"d1", "sp", "em", "sp", "a", "q">>, <<"a">>)
E_bsbs   == Doc(<<"d1", "sp", "em", "sp", "a">>, <<"bs", "bs">>)
E_bsa    == Doc(<<"d1", "sp", "hy", "sp", "bs", "a">>, <<"a">>)
E_le     == Doc(<<"d3", "sp", "em", "sp", "a">>, <<"LE">>)
E_hyem   == Doc(<<"d1", "sp", "hy", "sp", "a", "sp", "em", "sp", "a">>, <<"a">>)
E_noh3   == <<"ARTO", "a", "ARTC">>
E_nodate == Doc(<<"a", "sp", "em", "sp", "a">>, <<"a">>)
E_noart  == <<"H3O", "d2", "sp", "em", "sp", "a", "H3C">>

\* Three hand-made file names: d1-a.html, d2-a.html, d2-a-a.html.
N1 == <<"d1", "hy", "a">>
N2 == <<"d2", "hy", "a">>
N3 == <<"d2", "hy", "a", "hy", "a">>

Titles == {<<"a">>, <<"a", "q">>, <<"q">>}
Days   == {"d2"}

Names == {N1, N2, N3} \cup {NewName(d, t) : d \in Days, t \in Titles}

Dir(c1, c2, c3) ==
    [n \in Names |-> IF n = N1 THEN c1 ELSE IF n = N2 THEN c2
                     ELSE IF n = N3 THEN c3 ELSE NoFile]

InitFiles ==
    { Dir(E_q, E_em, E_hy),
      Dir(E_hyem, E_ws, E_noh3),
      Dir(E_bsbs, E_nodate, E_em),
      Dir(E_noart, E_le, NoFile),
      Dir(E_bsa, E_em, NoFile),
      Dir(NoFile, E_em, E_ws),
      Dir(NoFile, NoFile, NoFile) }

Meta0 == <<"MO", "a", "MM", "a", "MC">>

H_std      == <<"a", "nl">> \o Meta0 \o <<"nl", "LS", "nl", "a", "nl", "LE", "nl",
                "AS", "nl", "AE", "nl", "a">>
H_nomark   == <<"a", "nl">> \o Meta0 \o <<"nl", "AS", "AE">>
H_badmeta  == <<"MO", "MC", "LS", "LE", "AS", "AE">>
H_cross    == Meta0 \o <<"LS", "AS", "LE", "AE">>
H_nested   == Meta0 \o <<"AS", "LS", "AE", "LE", "AE">>
H_two      == Meta0 \o <<"LS", "a", "LE", "LS", "a", "LE", "AS", "AE">>
H_metain   == <<"LS">> \o Meta0 \o <<"LE", "AS", "AE">>

Homes == {H_std, H_nomark, H_badmeta, H_cross, H_nested, H_two, H_metain, NoFile}

\* ------------------------------------------------------------------- state
VARIABLES
    index,    \* the content of index.html, or NoFile
    files,    \* the entries directory: name -> content, or NoFile
    last,     \* the last command run, its argument and its error; whether it
              \* repeats a publish that succeeded; the home page before the
              \* first of these publishes
    pc,       \* concurrent publishes: where each invocation is
    tgt,      \* concurrent publishes: the entry each invocation publishes
    buf,      \* concurrent publishes: the text each invocation computed
    wrote,    \* concurrent publishes: the invocations that wrote, in order
    overlap,  \* concurrent publishes: one opened the file while the other had it open
    doc,      \* splicing alone: the document
    x,        \* splicing alone: the first replacement
    y,        \* splicing alone: the second replacement
    out1,     \* splicing alone: the result of the first splice
    out2,     \* splicing alone: the result of the second splice
    stage     \* splicing alone: the number of splices done

mainVars   == <<index, files, last>>
concVars   == <<pc, tgt, buf, wrote, overlap>>
spliceVars == <<doc, x, y, out1, out2, stage>>
vars       == <<mainVars, concVars, spliceVars>>

Procs == {"A", "B"}

NoResult == [err |-> "none", html |-> <<>>]

ConcIdle ==
    /\ pc = [p \in Procs |-> "idle"]
    /\ tgt = [p \in Procs |-> <<>>]
    /\ buf = [p \in Procs |-> <<>>]
    /\ wrote = <<>>
    /\ overlap = FALSE

SpliceIdle ==
    /\ doc = <<>> /\ x = <<>> /\ y = <<>>
    /\ out1 = NoResult /\ out2 = NoResult /\ stage = 0

NoCommand ==
    [cmd |-> "none", target |-> <<>>, err |-> "", again |-> FALSE, before |-> NoFile]

\* ----------------------------------------------- new and publish, in turn
Init ==
    /\ index \in Homes
    /\ files \in InitFiles
    /\ last = NoCommand
    /\ ConcIdle
    /\ SpliceIdle

New(title, today) ==
    LET r == cmd_new(files, today, title)
    IN  /\ files' = r.files
        /\ last' = [cmd |-> "new", target |-> NewName(today, title),
                    err |-> r.err, again |-> FALSE, before |-> index]
        /\ UNCHANGED <<index, concVars, spliceVars>>

Publish(target) ==
    LET r     == cmd_publish(index, files, target)
        again == last.cmd = "publish" /\ last.err = "" /\ last.target = target
    IN  /\ Len(index) <= MaxHome
        /\ index' = r.index
        /\ last' = [cmd |-> "publish", target |-> target, err |-> r.err,
                    again |-> again,
                    before |-> IF again THEN last.before ELSE index]
        /\ UNCHANGED <<files, concVars, spliceVars>>

Next ==
    \/ \E t \in Titles, d \in Days : New(t, d)
    \/ \E n \in Names : Publish(n)

Spec == Init /\ [][Next]_vars

\* -------------------------------------------- publish of one entry, repeated
\* Home pages made of blocks in every order: each marker and the metadata
\* comment at least once, text and quoted text between them.
Blocks == {"LS", "LE", "AS", "AE", "META", "a", "q"}

Required == {"LS", "LE", "AS", "AE", "META"}

BlockText(b) == IF b = "META" THEN Meta0 ELSE <<b>>

BlockSeqs(n) ==
    {f \in [1..n -> Blocks] : Required \subseteq {f[i] : i \in 1..n}}

BlockHomes ==
    UNION { { Concat([i \in 1..n |-> BlockText(bs[i])]) : bs \in BlockSeqs(n) } :
            n \in Cardinality(Required)..MaxBlocks }

PubFiles ==
    { Dir(E_q, E_em, E_bsbs),
      Dir(E_ws, E_le, E_noh3) }

InitPub ==
    /\ index \in BlockHomes \cup Homes
    /\ files \in PubFiles
    /\ last = NoCommand
    /\ ConcIdle
    /\ SpliceIdle

NextPub == \E n \in {N1, N2, N3} : Publish(n)

SpecPub == InitPub /\ [][NextPub]_vars

\* ------------------------------------------------- two publishes at once
\* Each invocation reads the home page and computes its result (lines 205 to
\* 235), then write_text opens the home page, which truncates it, and then
\* writes the result at offset 0.  Nothing orders the steps of the two.
ConcFiles == Dir(E_q, E_em, E_ws)

InitConc ==
    /\ index \in {H_std, H_two}
    /\ files = ConcFiles
    /\ last = NoCommand
    /\ pc = [p \in Procs |-> "start"]
    /\ tgt \in [Procs -> {N1, N2, N3}]
    /\ buf = [p \in Procs |-> <<>>]
    /\ wrote = <<>>
    /\ overlap = FALSE
    /\ SpliceIdle

Compute(p) ==
    LET r == cmd_publish(index, files, tgt[p])
    IN  /\ pc[p] = "start"
        /\ pc' = [pc EXCEPT ![p] = IF r.err = "" THEN "computed" ELSE "failed"]
        /\ buf' = [buf EXCEPT ![p] = IF r.err = "" THEN r.index ELSE <<>>]
        /\ UNCHANGED <<mainVars, tgt, wrote, overlap, spliceVars>>

OpenIndex(p) ==
    /\ pc[p] = "computed"
    /\ index' = OpenForWrite(index)
    /\ overlap' = (overlap \/ \E o \in Procs \ {p} : pc[o] = "opened")
    /\ pc' = [pc EXCEPT ![p] = "opened"]
    /\ UNCHANGED <<files, last, tgt, buf, wrote, spliceVars>>

WriteIndex(p) ==
    /\ pc[p] = "opened"
    /\ index' = WriteAtStart(index, buf[p])
    /\ wrote' = Append(wrote, p)
    /\ pc' = [pc EXCEPT ![p] = "done"]
    /\ UNCHANGED <<files, last, tgt, buf, overlap, spliceVars>>

NextConc ==
    \E p \in Procs :
        \/ Compute(p)
        \/ OpenIndex(p)
        \/ WriteIndex(p)

SpecConc == InitConc /\ [][NextConc]_vars

\* ------------------------------------------------------------ splicing alone
Seqs(A, n) == UNION {[1..k -> A] : k \in 0..n}

InitSplice ==
    /\ index = NoFile
    /\ files = Dir(NoFile, NoFile, NoFile)
    /\ last = NoCommand
    /\ ConcIdle
    /\ doc \in Seqs({"LS", "LE", "a"}, MaxDoc)
    /\ x = <<>> /\ y = <<>>
    /\ out1 = NoResult /\ out2 = NoResult
    /\ stage = 0

Replacements == Seqs({"a", "bs", "sp", "LE"}, MaxRepl)

SpliceFirst(r) ==
    /\ stage = 0
    /\ x' = r
    /\ out1' = replace_between_markers(doc, "LS", "LE", r)
    /\ stage' = 1
    /\ UNCHANGED <<mainVars, concVars, doc, y, out2>>

SpliceSecond(r) ==
    /\ stage = 1 /\ out1.err = ""
    /\ y' = r
    /\ out2' = replace_between_markers(out1.html, "LS", "LE", r)
    /\ stage' = 2
    /\ UNCHANGED <<mainVars, concVars, doc, x, out1>>

NextSplice ==
    \/ \E r \in Replacements : SpliceFirst(r)
    \/ \E r \in Replacements : SpliceSecond(r)

SpecSplice == InitSplice /\ [][NextSplice]_vars

\* ------------------------------------------------------------------ claims
IsPublish(c) == c.cmd = "publish"

Parses(fs, n) == fs[n] # NoFile /\ extract_entry_info(n, fs[n]).ok

\* C1: a publish that fails for any reason leaves the home page as it was:
\* the write is the last step, after every check, extraction and splice.
C1_FailedPublishLeavesHome ==
    [][(IsPublish(last') /\ last'.err # "") => index' = index]_vars

\* C1, witness: a publish failed at the second splice, after the metadata
\* comment and the latest region had been edited in memory.
C1_Witness ==
    /\ IsPublish(last) /\ last.err = "MarkerNotFound"
    /\ ensure_markers_exist(index)
    /\ Parses(files, last.target)

\* The first check that fails in the order home page exists, home page has
\* its markers and metadata comment, entry exists, entry is well formed.
ClaimedFirstFailure(idx, fs, t) ==
    IF idx = NoFile THEN "MissingIndex"
    ELSE IF ~ensure_markers_exist(idx) THEN "MissingMarkers"
    ELSE IF fs[t] = NoFile THEN "EntryNotFound"
    ELSE IF ~extract_latest_article_from_entry(fs[t]).ok \/ ~Parses(fs, t)
         THEN "MalformedEntry"
    ELSE "none"

\* C9 as stated: publish checks that the home page exists (MissingIndex),
\* then that it has both marker pairs and the metadata comment
\* (MissingMarkers), then that the entry exists (EntryNotFound), then that
\* the entry is well formed (MalformedEntry), and reports the first failure.
C9_AsClaimed ==
    [][(IsPublish(last') /\ ClaimedFirstFailure(index, files, last'.target) # "none")
         => last'.err = ClaimedFirstFailure(index, files, last'.target)]_vars

\* The first check that fails in the order home page exists, entry exists,
\* home page has its markers and metadata comment, entry is well formed.
FirstFailure(idx, fs, t) ==
    IF idx = NoFile THEN "MissingIndex"
    ELSE IF fs[t] = NoFile THEN "EntryNotFound"
    ELSE IF ~ensure_markers_exist(idx) THEN "MissingMarkers"
    ELSE IF ~extract_latest_article_from_entry(fs[t]).ok \/ ~Parses(fs, t)
         THEN "MalformedEntry"
    ELSE "none"

\* C9, amended: the checks run in the order home page exists, entry exists,
\* home page has its markers and metadata comment, entry is well formed, and
\* the error reported is that of the first check in this order that fails: a
\* home page lacking markers is reported as EntryNotFound when the entry
\* path does not exist.
C9_CheckOrder ==
    [][(IsPublish(last') /\ FirstFailure(index, files, last'.target) # "none")
         => last'.err = FirstFailure(index, files, last'.target)]_vars

\* C9, witness: the home page lacks markers, the entry does not exist, and
\* the error is EntryNotFound.
C9_Witness ==
    /\ IsPublish(last) /\ last.err = "EntryNotFound"
    /\ index # NoFile /\ ~ensure_markers_exist(index)

\* The file name of a parsed entry.
NameOf(e) == SubSeq(e.rel_path, 2, Len(e.rel_path) - 1)

\* C5: list_entries returns the parsed entries by date descending, and two
\* entries of one date in the ascending order of their file names.
C5_SortedStable ==
    LET L == list_entries(files).infos
    IN  /\ {NameOf(L[i]) : i \in 1..Len(L)} = {n \in Names : Parses(files, n)}
        /\ \A i, j \in 1..Len(L) :
              i < j =>
                \/ KeyLess(L[j].sort_key, L[i].sort_key)
                \/ /\ L[i].sort_key = L[j].sort_key
                   /\ PathLess(NameOf(L[i]), NameOf(L[j]))

\* C5, witness: a publish succeeded over a directory that holds two entries
\* of one date and an entry of another date.
C5_Witness ==
    LET L == list_entries(files).infos
    IN  /\ IsPublish(last) /\ last.err = ""
        /\ \E i, j, k \in 1..Len(L) :
              /\ i # j /\ L[i].sort_key = L[j].sort_key
              /\ L[k].sort_key # L[i].sort_key

\* The directory without the documents, other than t, that do not parse.
WithoutMalformed(fs, t) ==
    [n \in Names |-> IF n = t \/ Parses(fs, n) THEN fs[n] ELSE NoFile]

\* C6: list_entries never raises; a document that does not parse is left
\* out and one that parses is listed exactly once; so a malformed document
\* other than the one published changes nothing in the outcome of publish.
C6_MalformedSkipped ==
    LET R == list_entries(files)
    IN  /\ ~R.raised
        /\ \A n \in Names :
              Cardinality({i \in 1..Len(R.infos) : R.infos[i].rel_path = RelPath(n)})
                = IF Parses(files, n) THEN 1 ELSE 0
        /\ \A t \in Names :
              Parses(files, t) =>
                cmd_publish(index, files, t)
                  = cmd_publish(index, WithoutMalformed(files, t), t)

\* C6, witness: a well-formed entry was published while the directory held a
\* document that does not parse.
C6_Witness ==
    /\ IsPublish(last) /\ last.err = ""
    /\ \E n \in Names : files[n] # NoFile /\ ~Parses(files, n)

\* The link text the claim describes: the date, " - ", and the part of
\* title_line after its first separator (group 4 of the heading pattern).
ClaimedArchiveLine(e) ==
    <<"LI1">> \o e.rel_path \o <<"LI2", e.date_str, "sp", "hy", "sp">>
    \o SubSeq(e.title_line, 5, Len(e.title_line)) \o <<"LI3">>

\* C7 as stated: for every parsed entry, em-dash or hyphen, the link text is
\* the date, " - " and the title after the first separator; the date is not
\* repeated.
C7_AsClaimed ==
    LET L == list_entries(files).infos
    IN  (IsPublish(last) /\ last.err = "")
          => build_archive_ul(L)
               = JoinLines([i \in 1..Len(L) |-> ClaimedArchiveLine(L[i])])

\* C8: an entry document never changes once it exists: new on an existing
\* path fails with "already exists", and publish writes no entry document.
C8_EntriesNeverChange ==
    [][/\ \A n \in Names : files[n] # NoFile => files'[n] = files[n]
       /\ (last'.cmd = "new" /\ files[last'.target] # NoFile)
             => last'.err = "EntryAlreadyExists"
       /\ IsPublish(last') => files' = files]_vars

\* C8, witness: new was run on a path that exists.
C8_Witness ==
    /\ last.cmd = "new" /\ last.err = "EntryAlreadyExists"
    /\ files[last.target] # NoFile

Count(s, tok) == Cardinality({i \in 1..Len(s) : s[i] = tok})

MarkerToks == {"LS", "LE", "AS", "AE", "MO"}

Disjoint(a, b) == a[2] < b[1] \/ b[2] < a[1]

\* A home page that holds each marker comment and the text LATEST_META
\* exactly once, whose metadata comment matches the pattern, and in which
\* the metadata comment, the latest region and the archive region lie apart.
WellFormedHome(h) ==
    /\ h # NoFile
    /\ \A t \in MarkerToks : Count(h, t) = 1
    /\ LET m == MetaSearch(h)
           l == <<IndexFrom(h, "LS", 1), IndexFrom(h, "LE", 1)>>
           a == <<IndexFrom(h, "AS", 1), IndexFrom(h, "AE", 1)>>
       IN  /\ m[1] # 0 /\ l[1] < l[2] /\ a[1] < a[2]
           /\ Disjoint(m, l) /\ Disjoint(m, a) /\ Disjoint(l, a)

\* What publish of entry t puts into the home page holds no marker comment
\* and no LATEST_META text, and the title line of t holds no double quote.
CleanEntry(fs, t) ==
    LET info    == extract_entry_info(t, fs[t])
        article == extract_latest_article_from_entry(fs[t]).text
        lines   == build_archive_ul(list_entries(fs).infos)
    IN  /\ Parses(fs, t)
        /\ \A i \in 1..Len(info.title_line) : info.title_line[i] \notin QuoteToks
        /\ \A k \in MarkerToks :
              /\ ~Contains(info.title_line, k)
              /\ ~Contains(article, k)
              /\ ~Contains(lines, k)

RECURSIVE RegionCount(_, _, _)
RegionCount(s, start, end) ==
    LET m == RegionSearch(s, start, end)
    IN  IF m[1] = 0 THEN 0
        ELSE 1 + RegionCount(SubSeq(s, m[2] + 1, Len(s)), start, end)

\* C2 as stated: replace_between_markers succeeds only when the input holds
\* exactly one start ... end region; with none, or with two or more, it
\* raises an error.
C2_AsClaimed ==
    (stage >= 1 /\ out1.err = "") => RegionCount(doc, "LS", "LE") = 1

\* C4 as stated, for contents X and Y that hold no marker: on a document with
\* exactly one marker pair, splicing X and then Y gives the text before the
\* start marker, the start marker, a newline, Y without its trailing
\* whitespace, a newline, two spaces, the end marker, and the text after the
\* end marker, with each marker exactly once.
C4_AsClaimed ==
    LET i == IndexFrom(doc, "LS", 1)
        j == IndexFrom(doc, "LE", 1)
    IN  (/\ stage = 2 /\ out2.err = ""
         /\ Count(doc, "LS") = 1 /\ Count(doc, "LE") = 1 /\ i < j
         /\ ~Contains(x, "LE") /\ ~Contains(y, "LE"))
          => /\ out2.html = SubSeq(doc, 1, i - 1)
                            \o <<"LS", "nl">> \o rstrip(y) \o <<"nl", "sp", "sp", "LE">>
                            \o SubSeq(doc, j + 1, Len(doc))
             /\ Count(out2.html, "LS") = 1 /\ Count(out2.html, "LE") = 1

AllDone == \A p \in Procs : pc[p] \in {"done", "failed"}

\* C10 as stated: every interleaving of two publishes ends with the home
\* page equal to the complete result of the invocation that wrote last.
C10_AsClaimed ==
    (AllDone /\ wrote # <<>>) => index = buf[Last(wrote)]

\* C10, amended: when the two write_text calls do not overlap, the run ends
\* with the home page equal to the complete result of the invocation that
\* wrote last; when they overlap (both have opened, and so truncated, the
\* file before either writes), it ends with the result of the invocation
\* that wrote last followed by the part of the other result that is longer.
C10_LastWriterWins ==
    (AllDone /\ wrote # <<>>) =>
        IF overlap
        THEN Len(wrote) = 2 /\ index = WriteAtStart(buf[wrote[1]], buf[wrote[2]])
        ELSE index = buf[Last(wrote)]

\* C10, witness: both invocations wrote different results, one write_text
\* after the other.
C10_Witness ==
    /\ AllDone /\ Len(wrote) = 2 /\ ~overlap
    /\ buf["A"] # buf["B"] /\ Len(buf[wrote[1]]) > Len(buf[wrote[2]])
=============================================================================
